---- MODULE Spec2Model ----
(***************************************************************************)
(* Model of the pipelines compatibility layer of main.py: the registry     *)
(* _PIPELINES_REGISTRY, the directory scan _discover_pipelines, the        *)
(* credential check api_dependency and the two routes GET /pipelines and   *)
(* POST /pipelines/{name}; and of the router of pipelines_list.py.         *)
(***************************************************************************)
EXTENDS Integers, Sequences, FiniteSets, TLC

\* Largest number of directory entries os.listdir returns in the model.
MaxUnits == 2

(***************************************************************************)
(* Python values that cross the dispatch boundary (payloads, handler       *)
(* results, JSON bodies), tagged by type.                                  *)
(***************************************************************************)
VNone == [t |-> "none"]
VInt(n) == [t |-> "int", n |-> n]
VFloat(n) == [t |-> "float", n |-> n]
VStr(s) == [t |-> "str", s |-> s]
VList(items) == [t |-> "list", items |-> items]
VDict(d) == [t |-> "dict", d |-> d]
\* A value json.dumps cannot encode (a set, a datetime, a coroutine).
VObj == [t |-> "obj"]
\* An f-string: the literal pieces and the interpolated values, in order.
VFmt(parts) == [t |-> "fstr", parts |-> parts]

EmptyDict == VDict(<<>>)

\* Python truthiness, as used by `x or y`.
Truthy(v) ==
  CASE v.t = "none" -> FALSE
    [] v.t = "dict" -> DOMAIN v.d # {}
    [] v.t = "list" -> Len(v.items) > 0
    [] v.t = "str" -> v.s # ""
    [] v.t = "int" -> v.n # 0
    [] v.t = "float" -> v.n # 0
    [] OTHER -> TRUE

\* x or y
PyOr(x, y) == IF Truthy(x) THEN x ELSE y

\* str(x) for the attribute values a unit can declare as id or name.
PyStr(v) == IF v.t = "int" THEN ToString(v.n) ELSE v.s

(***************************************************************************)
(* Source units of a pipelines directory.  A file name is its stem and its *)
(* suffix; fname.endswith(".py") tests the suffix and fname[:-3] is the    *)
(* stem of a ".py" file.                                                   *)
(***************************************************************************)
FName(stem, ext) == [stem |-> stem, ext |-> ext]

EndsWithPy(fname) == fname.ext = ".py"

StripPy(fname) == fname.stem

\* A unit: what importing the file, reading Pipeline, instantiating it and
\* reading pipe / id / name produce.  load: "ok", "nospec" (no import spec
\* or loader) or "fault" (exec_module raises); marker: the module has a
\* non-None Pipeline attribute; init: "ok" or "fault" (Pipeline() raises);
\* pipe: "callable", "absent" or "notcallable"; id, name: VNone when the
\* attribute is absent; prog: the body of pipe.
Unit(fname, load, marker, init, pipe, id, name, prog) ==
  [fname |-> fname, load |-> load, marker |-> marker, init |-> init,
   pipe |-> pipe, id |-> id, name |-> name, prog |-> prog]

Catalogue ==
  { Unit(FName("echo", ".py"), "ok", TRUE, "ok", "callable",
         VStr("time_unix"), VStr("time_unix"), "time_unix"),
    Unit(FName("time_unix", ".py"), "ok", TRUE, "ok", "callable",
         VStr("time_unix"), VStr("time_unix"), "time_unix"),
    Unit(FName("math_add", ".py"), "ok", TRUE, "ok", "callable",
         VStr("math_add"), VStr("math_add"), "math_add"),
    Unit(FName("noid", ".py"), "ok", TRUE, "ok", "callable",
         VNone, VNone, "raise"),
    Unit(FName("named", ".py"), "ok", TRUE, "ok", "callable",
         VStr(""), VStr("Time_unix"), "get_values"),
    Unit(FName("num", ".py"), "ok", TRUE, "ok", "callable",
         VInt(7), VNone, "obj"),
    Unit(FName("broken", ".py"), "fault", TRUE, "ok", "callable",
         VStr("math_add"), VNone, "math_add"),
    Unit(FName("util", ".py"), "ok", FALSE, "ok", "callable",
         VStr("math_add"), VNone, "math_add"),
    Unit(FName("badinit", ".py"), "ok", TRUE, "fault", "callable",
         VStr("math_add"), VNone, "math_add"),
    Unit(FName("nopipe", ".py"), "ok", TRUE, "ok", "notcallable",
         VStr("math_add"), VNone, "math_add"),
    Unit(FName("flow", ".json"), "ok", TRUE, "ok", "callable",
         VStr("math_add"), VNone, "math_add") }

\* The listings os.listdir can return: file names are unique in a directory
\* and the order is arbitrary.
RECURSIVE Listings(_)
Listings(n) ==
  IF n = 0 THEN {<<>>}
  ELSE LET shorter == Listings(n - 1)
       IN shorter \cup
          { Append(l, u) : l \in { x \in shorter : Len(x) = n - 1 },
                           u \in Catalogue }

NoRepeat(l) == \A i, j \in 1..Len(l) : i # j => l[i].fname # l[j].fname

\* What PIPELINES_DIR can name: an empty string, a missing path, a path that
\* is a regular file, or a directory with a listing.
NonDirs ==
  { [base |-> "", isdir |-> FALSE, listing |-> <<>>],
    [base |-> "./missing", isdir |-> FALSE, listing |-> <<>>],
    [base |-> "./file", isdir |-> FALSE, listing |-> <<>>] }

Dir(listing) == [base |-> "./pipelines", isdir |-> TRUE, listing |-> listing]

DirStates ==
  NonDirs \cup { Dir(l) : l \in { x \in Listings(MaxUnits) : NoRepeat(x) } }

\* the listing l with u put at position i
InsertAt(l, i, u) == SubSeq(l, 1, i - 1) \o <<u>> \o SubSeq(l, i, Len(l))

RemoveAt(l, i) == SubSeq(l, 1, i - 1) \o SubSeq(l, i + 1, Len(l))

\* What PIPELINES_DIR can name at the next scan, given what it named at the
\* last one: the same thing, anything that is no directory, a directory of at
\* most one file where there was none, or the directory with one file
\* removed or one file added at any place of the listing.
FsEdits(d) ==
  IF ~d.isdir
  THEN NonDirs \cup {Dir(<<>>)} \cup { Dir(<<u>>) : u \in Catalogue }
  ELSE {d} \cup NonDirs
       \cup { Dir(RemoveAt(d.listing, i)) : i \in 1..Len(d.listing) }
       \cup { x \in { Dir(InsertAt(d.listing, i, u)) :
                      i \in 1..(Len(d.listing) + 1), u \in Catalogue } :
              Len(d.listing) < MaxUnits /\ NoRepeat(x.listing) }

(***************************************************************************)
(* Requests.                                                               *)
(***************************************************************************)
\* The x-api-key header: absent, or present with a value.
NoHeader == [present |-> FALSE, v |-> ""]
Header(v) == [present |-> TRUE, v |-> v]

Headers == {NoHeader, Header(""), Header("changeme"), Header("wrong")}

\* Path parameters of POST /pipelines/{name}.
Names == {"time_unix", "Time_unix", "math_add", "noid", "7", "ghost"}

\* Request bodies: none, or a mapping with a list of numbers.
Payloads == {VNone, VDict([values |-> VList(<<VInt(1), VInt(2)>>)])}

NoResp ==
  [route |-> "none", hdr |-> NoHeader, name |-> "", payload |-> VNone,
   status |-> 0, body |-> VNone, invoked |-> <<>>]

(***************************************************************************)
(* retry_jsonrpc(call_fn, desc, retries=1, sleep_s=0.1).                   *)
(***************************************************************************)
\* Largest value of the retries argument in the model.
MaxRetries == 2

\* The default of the retries argument.
DefaultRetries == 1

\* The substrings the classification looks for in str(e).
Markers == {"notifications/initialized", "JSONRPCMessage", "TaskGroup"}

\* What awaiting call_fn() gives: a result, or an exception, described by
\* the markers str(e) contains, whether e has an `exceptions` attribute,
\* and the markers str(sub) contains for each sub-exception.
Ok(val) == [kind |-> "ok", val |-> val, txt |-> {}, group |-> FALSE,
            subs |-> <<>>]

Err(txt, group, subs) ==
  [kind |-> "error", val |-> "", txt |-> txt, group |-> group, subs |-> subs]

CallOutcomes ==
  { Ok("r1"), Ok("r2"),
    Err({}, FALSE, <<>>),
    Err({"notifications/initialized"}, FALSE, <<>>),
    Err({"JSONRPCMessage"}, FALSE, <<>>),
    Err({"TaskGroup"}, TRUE, <<{}>>),
    Err({}, TRUE, <<{}, {"JSONRPCMessage"}>>),
    Err({}, TRUE, <<{"TaskGroup"}>>),
    Err({}, TRUE, <<>>) }

\* the value of `transient` when the except block reaches line 209
IsTransient(e) ==
  \/ e.txt \cap Markers # {}
  \/ /\ e.group
     /\ \E i \in 1..Len(e.subs) :
          e.subs[i] \cap {"notifications/initialized", "JSONRPCMessage"} # {}

\* Mutant of RetryOnError: `attempt <= retries and transient`.
RetryOnErrorOffByOne(attempt, retries, e) ==
  attempt <= retries /\ IsTransient(e)

\* `if attempt < retries and transient`: sleep and continue, else raise
RetryOnError(attempt, retries, e) == attempt < retries /\ IsTransient(e)

\* pc: "idle" (no call), "call" (about to await call_fn), "sleep" (in
\* asyncio.sleep before `continue`), "returned" or "raised"; attempt: the
\* loop variable; hist: what each await of call_fn gave; ret: the value
\* returned; exc: the exception that left retry_jsonrpc.
RetryState(pc, retries, attempt, hist, ret, exc) ==
  [pc |-> pc, retries |-> retries, attempt |-> attempt, hist |-> hist,
   ret |-> ret, exc |-> exc]

NoValue == [kind |-> "none"]

RetryIdle == RetryState("idle", 0, 0, <<>>, NoValue, NoValue)

VARIABLES
  apiKey,     \* API_KEY, read from the environment at import
  fs,         \* what PIPELINES_DIR named when the last scan read it
  registry,   \* _PIPELINES_REGISTRY, in insertion order
  scanPc,     \* "idle", or "loop" while _discover_pipelines iterates
  scanList,   \* the listing os.listdir returned to the running scan
  scanIdx,    \* position of the running scan in scanList
  started,    \* on_startup has returned
  preScan,    \* the registry as it was when the running scan was entered
  scanRaised, \* the last scan ended by raising
  resp,       \* the last request served and the response to it
  rj          \* the running call of retry_jsonrpc

vars == <<apiKey, fs, registry, scanPc, scanList, scanIdx, started, preScan,
          scanRaised, resp, rj>>

(***************************************************************************)
(* The registry: a dict, kept as the sequence of its items in insertion    *)
(* order.                                                                  *)
(***************************************************************************)
RegKeys(reg) == [i \in 1..Len(reg) |-> reg[i].key]

RegKeySet(reg) == { reg[i].key : i \in 1..Len(reg) }

HasKey(reg, k) == k \in RegKeySet(reg)

\* reg[k], for a key that is present
RegAt(reg, k) == reg[CHOOSE i \in 1..Len(reg) : reg[i].key = k]

\* Mutant of RegPut: reg.setdefault(k, item), the first writer of a key wins.
RegPutFirstWins(reg, item) ==
  IF HasKey(reg, item.key) THEN reg ELSE Append(reg, item)

\* reg[k] = item: a present key keeps its position, a new key goes last
RegPut(reg, item) ==
  IF HasKey(reg, item.key)
  THEN [i \in 1..Len(reg) |-> IF reg[i].key = item.key THEN item ELSE reg[i]]
  ELSE Append(reg, item)

\* the entry stored for a unit of directory base
Entry(base, u, key) ==
  [key |-> key,
   module |-> <<"pipelines", StripPy(u.fname)>>,
   file |-> <<base, u.fname>>,
   callable |-> u.prog]

\* Mutant of DerivePid: `getattr(obj, "id", None) or fname[:-3]`, the name
\* attribute is not consulted.
DerivePidSkipsName(u) == PyOr(u.id, VStr(StripPy(u.fname)))

\* pid = getattr(obj, "id", None) or getattr(obj, "name", None) or fname[:-3]
DerivePid(u) == PyOr(u.id, PyOr(u.name, VStr(StripPy(u.fname))))

\* Mutant of DiscoverUnit: no try/except around the iteration, so a fault of
\* exec_module or of Pipeline() leaves the loop.
DiscoverUnitUnguarded(reg, base, u) ==
  IF ~EndsWithPy(u.fname) THEN [reg |-> reg, exc |-> FALSE]
  ELSE IF u.load = "nospec" THEN [reg |-> reg, exc |-> FALSE]
  ELSE IF u.load = "fault" THEN [reg |-> reg, exc |-> TRUE]
  ELSE IF ~u.marker THEN [reg |-> reg, exc |-> FALSE]
  ELSE IF u.init = "fault" THEN [reg |-> reg, exc |-> TRUE]
  ELSE IF u.pipe # "callable" THEN [reg |-> reg, exc |-> FALSE]
  ELSE [reg |-> RegPut(reg, Entry(base, u, PyStr(DerivePid(u)))),
        exc |-> FALSE]

\* Mutant of DiscoverUnit: the test `if not callable(pipe_fn)` is missing.
DiscoverUnitNoCallableTest(reg, base, u) ==
  IF ~EndsWithPy(u.fname) THEN [reg |-> reg, exc |-> FALSE]
  ELSE IF u.load = "nospec" THEN [reg |-> reg, exc |-> FALSE]
  ELSE IF u.load = "fault" THEN [reg |-> reg, exc |-> FALSE]
  ELSE IF ~u.marker THEN [reg |-> reg, exc |-> FALSE]
  ELSE IF u.init = "fault" THEN [reg |-> reg, exc |-> FALSE]
  ELSE [reg |-> RegPut(reg, Entry(base, u, PyStr(DerivePid(u)))),
        exc |-> FALSE]

\* One iteration of the for loop of _discover_pipelines: the registry after
\* the unit, and whether an exception left the iteration.
DiscoverUnit(reg, base, u) ==
  IF ~EndsWithPy(u.fname) THEN [reg |-> reg, exc |-> FALSE]
  ELSE IF u.load = "nospec" THEN [reg |-> reg, exc |-> FALSE]
  ELSE IF u.load = "fault" THEN [reg |-> reg, exc |-> FALSE]
  ELSE IF ~u.marker THEN [reg |-> reg, exc |-> FALSE]
  ELSE IF u.init = "fault" THEN [reg |-> reg, exc |-> FALSE]
  ELSE IF u.pipe # "callable" THEN [reg |-> reg, exc |-> FALSE]
  ELSE [reg |-> RegPut(reg, Entry(base, u, PyStr(DerivePid(u)))),
        exc |-> FALSE]

\* Mutant of RegClear: the scan does not clear the registry.
RegClearOmitted(reg) == reg

\* _PIPELINES_REGISTRY.clear()
RegClear(reg) == <<>>

Init ==
  /\ apiKey \in {"", "changeme"}
  /\ fs = [base |-> "", isdir |-> FALSE, listing |-> <<>>]
  /\ registry = <<>>
  /\ scanPc = "idle"
  /\ scanList = <<>>
  /\ scanIdx = 1
  /\ started = FALSE
  /\ preScan = <<>>
  /\ scanRaised = FALSE
  /\ resp = NoResp
  /\ rj = RetryIdle

\* on_startup calls _discover_pipelines(PIPELINES_DIR): the registry is
\* cleared, and the loop is entered when the path is a directory; over an
\* empty listing the loop ends at once.  The first scan reads any directory,
\* a later one an edit of what the last one read.  The response on record
\* is dropped: it was computed from the registry that is now cleared.
DiscoverBegin ==
  /\ scanPc = "idle"
  /\ \E d \in (IF started THEN FsEdits(fs) ELSE DirStates) :
       /\ fs' = d
       /\ registry' = RegClear(registry)
       /\ scanRaised' = FALSE
       /\ IF d.base = "" \/ ~d.isdir \/ Len(d.listing) = 0
          THEN /\ scanPc' = "idle"
               /\ started' = TRUE
               /\ scanList' = <<>>
               /\ preScan' = <<>>
          ELSE /\ scanPc' = "loop"
               /\ started' = started
               /\ scanList' = d.listing
               /\ preScan' = registry
       /\ scanIdx' = 1
  /\ resp' = NoResp
  /\ UNCHANGED <<apiKey, rj>>

DiscoverStep ==
  /\ scanPc = "loop"
  /\ LET r == DiscoverUnit(registry, fs.base, scanList[scanIdx])
         last == r.exc \/ scanIdx = Len(scanList)
     IN /\ registry' = r.reg
        /\ scanRaised' = r.exc
        /\ scanIdx' = IF last THEN scanIdx ELSE scanIdx + 1
        /\ scanPc' = IF last THEN "idle" ELSE "loop"
        /\ started' = (started \/ last)
        /\ preScan' = IF last THEN <<>> ELSE preScan
  /\ UNCHANGED <<apiKey, fs, scanList, resp, rj>>

(***************************************************************************)
(* The bodies of pipe() of the catalogue's units, applied to body=payload. *)
(* An outcome is a returned value or a raised exception with its str().    *)
(***************************************************************************)
Return(v) == [kind |-> "return", val |-> v, msg |-> ""]
Raise(msg) == [kind |-> "raise", val |-> VNone, msg |-> msg]

\* d.get(k, default)
DictGet(d, k, default) == IF k \in DOMAIN d.d THEN d.d[k] ELSE default

IsNumber(v) == v.t \in {"int", "float"}

RECURSIVE SumItems(_)
SumItems(items) ==
  IF Len(items) = 0 THEN 0 ELSE Head(items).n + SumItems(Tail(items))

HandlerOutcome(prog, body) ==
  CASE prog = "time_unix" ->
         Return(VDict([epoch |-> VInt(0), time |-> VStr("1970-01-01T00:00:00Z")]))
    [] prog = "math_add" ->
         LET values == DictGet(PyOr(body, EmptyDict), "values", VList(<<>>))
         IN IF values.t # "list"
               \/ \E i \in 1..Len(values.items) : ~IsNumber(values.items[i])
            THEN Return(VDict([error |-> VStr("body.values must be a list of numbers")]))
            ELSE Return(VDict([sum |-> VFloat(SumItems(values.items))]))
    [] prog = "get_values" -> Return(DictGet(body, "values", VNone))
    [] prog = "obj" -> Return(VObj)
    [] prog = "raise" -> Raise("boom")

(***************************************************************************)
(* JSONResponse(content=...) encodes the content with json.dumps when it   *)
(* is constructed, and raises TypeError on a value json cannot encode.     *)
(***************************************************************************)
RECURSIVE JsonOk(_)
JsonOk(v) ==
  CASE v.t = "obj" -> FALSE
    [] v.t = "dict" -> \A k \in DOMAIN v.d : JsonOk(v.d[k])
    [] v.t = "list" -> \A i \in 1..Len(v.items) : JsonOk(v.items[i])
    [] OTHER -> TRUE

\* raise HTTPException(status_code, detail): FastAPI answers {"detail": ...}
HttpError(status, detail) ==
  [status |-> status, body |-> VDict([detail |-> detail]), invoked |-> <<>>]

(***************************************************************************)
(* Credential checks.                                                      *)
(***************************************************************************)
\* Mutant of ApiDependencyRejects: `if key and key != API_KEY`, a request
\* without the header passes.
ApiDependencyWrongOnly(hdr, key) == hdr.present /\ hdr.v # "" /\ hdr.v # key

\* Mutant of ApiDependencyRejects: `if key != API_KEY`, without `not key`.
ApiDependencyNoEmptyCheck(hdr, key) == ~hdr.present \/ hdr.v # key

\* api_dependency of main.py: key = request.headers.get("x-api-key");
\* reject when `not key or key != API_KEY`.
ApiDependencyRejects(hdr, key) ==
  \/ ~hdr.present
  \/ hdr.v = ""
  \/ hdr.v # key

\* require_api_key of pipelines_list.py: reject when
\* `not api_key_configured or provided != api_key_configured`.
RequireApiKeyRejects(hdr, key) ==
  \/ key = ""
  \/ ~hdr.present
  \/ hdr.v # key

(***************************************************************************)
(* sorted() of a list of strings.  Python compares strings by code point;  *)
(* StrOrder lists the strings of the model in that order.                  *)
(***************************************************************************)
StrOrder ==
  <<"", "7", "Time_unix", "badinit", "broken", "echo", "flow", "ghost",
    "math_add", "named", "noid", "nopipe", "num", "time_unix",
    "util">>

StrRank(s) == CHOOSE i \in 1..Len(StrOrder) : StrOrder[i] = s

StrLess(a, b) == StrRank(a) < StrRank(b)

\* the sorted list with x inserted after the items not greater than it
RECURSIVE InsertSorted(_, _)
InsertSorted(l, x) ==
  IF Len(l) = 0 THEN <<x>>
  ELSE IF StrLess(x, Head(l)) THEN <<x>> \o l
  ELSE <<Head(l)>> \o InsertSorted(Tail(l), x)

\* Mutant of SortedList: the keys in the order the dict holds them.
SortedListOmitted(l) == l

RECURSIVE SortedList(_)
SortedList(l) ==
  IF Len(l) = 0 THEN <<>>
  ELSE InsertSorted(SortedList(SubSeq(l, 1, Len(l) - 1)), l[Len(l)])

StrList(l) == VList([i \in 1..Len(l) |-> VStr(l[i])])

(***************************************************************************)
(* The routes of attach_pipelines_routes.                                  *)
(***************************************************************************)
\* the body of _pipelines_list, behind its dependency
PipelinesListResponse(reg, key, hdr) ==
  IF ApiDependencyRejects(hdr, key)
  THEN HttpError(401, VStr("Unauthorized"))
  ELSE [status |-> 200,
        body |-> VDict([pipelines |-> StrList(SortedList(RegKeys(reg)))]),
        invoked |-> <<>>]

\* Mutant of DispatchResult: every returned value is wrapped under "result".
DispatchResultAlwaysWrapped(entry, body) ==
  LET out == HandlerOutcome(entry.callable, body)
      call == <<[file |-> entry.file, body |-> body]>>
      content == VDict([result |-> out.val])
  IN IF out.kind = "raise"
     THEN [HttpError(500, VStr(out.msg)) EXCEPT !.invoked = call]
     ELSE IF ~JsonOk(content)
     THEN [HttpError(500, VStr("Object is not JSON serializable"))
             EXCEPT !.invoked = call]
     ELSE [status |-> 200, body |-> content, invoked |-> call]

\* Mutant of DispatchResult: a fault of the callable is answered with a
\* fixed message instead of str(e).
DispatchResultGenericFault(entry, body) ==
  LET out == HandlerOutcome(entry.callable, body)
      call == <<[file |-> entry.file, body |-> body]>>
      content == IF out.val.t = "dict" THEN out.val
                 ELSE VDict([result |-> out.val])
  IN IF out.kind = "raise" \/ ~JsonOk(content)
     THEN [HttpError(500, VStr("Internal Server Error")) EXCEPT !.invoked = call]
     ELSE [status |-> 200, body |-> content, invoked |-> call]

\* what the try block of _pipelines_call does with the outcome of the call
DispatchResult(entry, body) ==
  LET out == HandlerOutcome(entry.callable, body)
      call == <<[file |-> entry.file, body |-> body]>>
      content == IF out.val.t = "dict" THEN out.val
                 ELSE VDict([result |-> out.val])
  IN IF out.kind = "raise"
     THEN [HttpError(500, VStr(out.msg)) EXCEPT !.invoked = call]
     ELSE IF ~JsonOk(content)
     THEN [HttpError(500, VStr("Object is not JSON serializable"))
             EXCEPT !.invoked = call]
     ELSE [status |-> 200, body |-> content, invoked |-> call]

\* Mutant of PipelinesCallResponse: the registry is looked up with
\* .get(name) or the first entry, so a miss is dispatched when it can be.
PipelinesCallLooseLookup(reg, key, hdr, name, payload) ==
  IF ApiDependencyRejects(hdr, key)
  THEN HttpError(401, VStr("Unauthorized"))
  ELSE IF Len(reg) = 0
  THEN HttpError(404, VFmt(<<"pipeline '", name, "' not found">>))
  ELSE DispatchResult(IF HasKey(reg, name) THEN RegAt(reg, name) ELSE reg[1],
                      PyOr(payload, EmptyDict))

\* the body of _pipelines_call, behind its dependency
PipelinesCallResponse(reg, key, hdr, name, payload) ==
  IF ApiDependencyRejects(hdr, key)
  THEN HttpError(401, VStr("Unauthorized"))
  ELSE IF ~HasKey(reg, name)
  THEN HttpError(404, VFmt(<<"pipeline '", name, "' not found">>))
  ELSE DispatchResult(RegAt(reg, name), PyOr(payload, EmptyDict))

Served(route, hdr, name, payload, r) ==
  [route |-> route, hdr |-> hdr, name |-> name, payload |-> payload,
   status |-> r.status, body |-> r.body, invoked |-> r.invoked]

\* Mutant of RegAfterRequest: a handler that rebuilds the registry lazily and
\* starts by clearing it.
RegAfterRequestCleared(reg) == <<>>

\* The registry after a request: neither handler assigns to
\* _PIPELINES_REGISTRY or calls a method that changes it.
RegAfterRequest(reg) == reg

\* GET /pipelines: the registry is read, nothing is written
ServeList ==
  /\ started
  /\ \E hdr \in Headers :
       resp' = Served("list", hdr, "", VNone,
                      PipelinesListResponse(registry, apiKey, hdr))
  /\ registry' = RegAfterRequest(registry)
  /\ UNCHANGED <<apiKey, fs, scanPc, scanList, scanIdx, started, preScan,
                 scanRaised, rj>>

\* POST /pipelines/{name}
ServeCall ==
  /\ started
  /\ \E hdr \in Headers, name \in Names, payload \in Payloads :
       resp' = Served("call", hdr, name, payload,
                      PipelinesCallResponse(registry, apiKey, hdr, name, payload))
  /\ registry' = RegAfterRequest(registry)
  /\ UNCHANGED <<apiKey, fs, scanPc, scanList, scanIdx, started, preScan,
                 scanRaised, rj>>

\* The handlers are coroutines of one event loop and the scan has no await
\* in it: a request is served only between scans.
PipelinesList == scanPc = "idle" /\ ServeList

PipelinesCall == scanPc = "idle" /\ ServeCall

Next == DiscoverBegin \/ DiscoverStep \/ PipelinesList \/ PipelinesCall

Spec == Init /\ [][Next]_vars

(***************************************************************************)
(* The router of pipelines_list.py: GET /pipelines behind require_api_key, *)
(* answering the sorted stems of the *.json files of PIPELINES_DIR.        *)
(***************************************************************************)
\* _discover_pipeline_ids
DiscoverPipelineIds(d) ==
  LET json == SelectSeq(d.listing, LAMBDA u : u.fname.ext = ".json")
      stems == [i \in 1..Len(json) |-> json[i].fname.stem]
  IN SortedList(SelectSeq(stems, LAMBDA n : n # ""))

ListPipelinesResponse(d, key, hdr) ==
  IF RequireApiKeyRejects(hdr, key)
  THEN HttpError(401, VStr("Unauthorized"))
  ELSE [status |-> 200, body |-> StrList(DiscoverPipelineIds(d)),
        invoked |-> <<>>]

ListPipelines ==
  /\ scanPc = "idle"
  /\ started
  /\ \E hdr \in Headers :
       resp' = Served("router", hdr, "", VNone,
                      ListPipelinesResponse(fs, apiKey, hdr))
  /\ UNCHANGED <<apiKey, fs, registry, scanPc, scanList, scanIdx, started,
                 preScan, scanRaised, rj>>

NextRouter ==
  DiscoverBegin \/ DiscoverStep \/ PipelinesList \/ PipelinesCall
  \/ ListPipelines

\* The application with the router of pipelines_list.py included as well.
SpecRouter == Init /\ [][NextRouter]_vars

(***************************************************************************)
(* Thread-per-request serving: a request may be served while a re-scan is  *)
(* between two steps.                                                      *)
(***************************************************************************)
ConcurrentList == scanPc = "loop" /\ ServeList

ConcurrentCall == scanPc = "loop" /\ ServeCall

NextThreads ==
  DiscoverBegin \/ DiscoverStep \/ PipelinesList \/ PipelinesCall
  \/ ConcurrentList \/ ConcurrentCall

SpecThreads == Init /\ [][NextThreads]_vars

(***************************************************************************)
(* Reference notions for the properties.                                   *)
(***************************************************************************)
\* The registry a complete run of the loop of _discover_pipelines builds
\* from an empty one.
RECURSIVE ScanResult(_, _)
ScanResult(base, listing) ==
  IF Len(listing) = 0 THEN <<>>
  ELSE DiscoverUnit(ScanResult(base, SubSeq(listing, 1, Len(listing) - 1)),
                    base, listing[Len(listing)]).reg

\* The request carried the configured secret, and a secret is configured.
CorrectCredential(r) == r.hdr.present /\ r.hdr.v = apiKey /\ apiKey # ""

\* The header is absent or differs from the configured secret.
BadCredential(r) == ~r.hdr.present \/ r.hdr.v # apiKey

Unauthorized401(r) ==
  /\ r.status = 401
  /\ r.body = VDict([detail |-> VStr("Unauthorized")])
  /\ r.invoked = <<>>

\* A unit of one of the four kinds that the scan skips.
Faulty(u) ==
  u.load = "fault" \/ ~u.marker \/ u.init = "fault" \/ u.pipe # "callable"

Eligible(u) == u.fname.ext = ".py"

ScanDone == scanPc = "idle" /\ started

\* C1: a request to a protected route whose x-api-key is absent or differs
\* from the configured secret is answered 401 Unauthorized, the same for a
\* missing and a wrong header and for registered and unregistered ids, and
\* no handler callable is invoked.
C1_BadCredentialIs401 ==
  (resp.route \in {"list", "call"} /\ BadCredential(resp))
    => Unauthorized401(resp)

C1_Witness ==
  /\ resp.route = "call"
  /\ resp.hdr = Header("wrong")
  /\ apiKey = "changeme"
  /\ HasKey(registry, resp.name)
  /\ Unauthorized401(resp)

\* C2: with an empty configured secret every request to a protected route
\* is answered 401, whatever x-api-key it carries.
C2_FailClosed ==
  (apiKey = "" /\ resp.route \in {"list", "call", "router"})
    => Unauthorized401(resp)

C2_Witness ==
  /\ apiKey = ""
  /\ resp.route = "call"
  /\ resp.hdr = Header("")
  /\ HasKey(registry, resp.name)
  /\ Unauthorized401(resp)

\* The authorized dispatch of a registered id, and what its callable did.
Dispatched(r) ==
  r.route = "call" /\ CorrectCredential(r) /\ HasKey(registry, r.name)

OutcomeOf(r) ==
  HandlerOutcome(RegAt(registry, r.name).callable, PyOr(r.payload, EmptyDict))

Wrapped(v) == IF v.t = "dict" THEN v ELSE VDict([result |-> v])

\* C3 as claimed: an authorized POST to a registered id whose handler
\* returns is answered 200 with the returned mapping, or with
\* {"result": value} for a value of any other type.
C3_AnyReturnIs200 ==
  (Dispatched(resp) /\ OutcomeOf(resp).kind = "return")
    => (resp.status = 200 /\ resp.body = Wrapped(OutcomeOf(resp).val))

\* C3 amended: the same for every returned value that JSON can encode; a
\* returned value that JSON cannot encode is answered 500.
C3_EncodableReturnIs200 ==
  (Dispatched(resp) /\ OutcomeOf(resp).kind = "return")
    => IF JsonOk(OutcomeOf(resp).val)
       THEN resp.status = 200 /\ resp.body = Wrapped(OutcomeOf(resp).val)
       ELSE resp.status = 500

C3_Witness ==
  /\ Dispatched(resp)
  /\ OutcomeOf(resp) = Return(VNone)
  /\ resp.status = 200
  /\ resp.body = VDict([result |-> VNone])

\* C4: an authorized POST to an id that is no key of the registry (exact,
\* case-sensitive match) is answered 404 with a message naming the id, and
\* no handler callable is invoked.
C4_UnknownIdIs404 ==
  (resp.route = "call" /\ CorrectCredential(resp)
   /\ resp.name \notin RegKeySet(registry))
    => /\ resp.status = 404
       /\ resp.body =
            VDict([detail |-> VFmt(<<"pipeline '", resp.name, "' not found">>)])
       /\ resp.invoked = <<>>

C4_Witness ==
  /\ resp.route = "call"
  /\ CorrectCredential(resp)
  /\ resp.name = "Time_unix"
  /\ RegKeySet(registry) = {"time_unix"}
  /\ resp.status = 404

\* C5: when the callable of a registered id raises during an authorized
\* POST, the response is 500 carrying str(exception); the step that serves
\* it changes nothing but the response, so the registry is unchanged and
\* every later request is served from the same state.
C5_FaultIs500 ==
  /\ [](Dispatched(resp) /\ OutcomeOf(resp).kind = "raise"
        => /\ resp.status = 500
           /\ resp.body = VDict([detail |-> VStr(OutcomeOf(resp).msg)]))
  /\ [][resp'.status = 500
        => UNCHANGED <<apiKey, fs, registry, scanPc, scanList, scanIdx,
                       started, preScan, scanRaised>>]_vars

C5_Witness ==
  /\ Dispatched(resp)
  /\ OutcomeOf(resp) = Raise("boom")
  /\ resp.status = 500
  /\ Len(registry) = 2

\* C6: a unit that faults while loading, lacks the Pipeline marker, faults
\* on instantiation or has no callable pipe is skipped: the scan does not
\* raise, runs to the end of the listing, and leaves the registry that the
\* listing without those units gives.
C6_ScanIsolation ==
  (ScanDone /\ fs.isdir)
    => /\ ~scanRaised
       /\ scanIdx = Len(scanList) \/ Len(fs.listing) = 0
       /\ registry =
            ScanResult(fs.base, SelectSeq(fs.listing, LAMBDA u : ~Faulty(u)))

C6_Witness ==
  /\ ScanDone
  /\ Len(fs.listing) = 2
  /\ fs.listing[1].load = "fault"
  /\ ~Faulty(fs.listing[2])
  /\ Len(registry) = 1

\* The units of the listing that are registered, and the key of each.
Registers(u) == Eligible(u) /\ ~Faulty(u)

KeyOf(u) == PyStr(DerivePid(u))

\* the last unit of the listing registered under key k
LastWith(listing, k) ==
  listing[CHOOSE i \in 1..Len(listing) :
            /\ Registers(listing[i]) /\ KeyOf(listing[i]) = k
            /\ \A j \in (i + 1)..Len(listing) :
                 ~(Registers(listing[j]) /\ KeyOf(listing[j]) = k)]

\* C7: after a scan the registry holds one entry under each derived id, the
\* entry of the unit processed last among those deriving it; no entry of an
\* earlier such unit is held under any key.
C7_LastWins ==
  (ScanDone /\ fs.isdir)
    => /\ RegKeySet(registry) =
            { KeyOf(fs.listing[i]) :
                i \in { j \in 1..Len(fs.listing) : Registers(fs.listing[j]) } }
       /\ \A i \in 1..Len(registry) :
            /\ \A j \in 1..Len(registry) :
                 registry[j].key = registry[i].key => j = i
            /\ registry[i].file =
                 <<fs.base, LastWith(fs.listing, registry[i].key).fname>>

C7_Witness ==
  /\ ScanDone
  /\ Len(fs.listing) = 2
  /\ fs.listing[1].fname = FName("time_unix", ".py")
  /\ fs.listing[2].fname = FName("echo", ".py")
  /\ Len(registry) = 1
  /\ registry[1].key = "time_unix"
  /\ registry[1].file = <<fs.base, FName("echo", ".py")>>

\* C8: an authorized GET /pipelines is answered 200 {"pipelines": L} with L
\* strictly ascending (sorted, no duplicates) and holding exactly the keys
\* of the registry.
C8_ListSorted ==
  (resp.route = "list" /\ CorrectCredential(resp))
    => /\ resp.status = 200
       /\ DOMAIN resp.body.d = {"pipelines"}
       /\ LET L == resp.body.d.pipelines.items
          IN /\ \A i \in 1..(Len(L) - 1) : StrLess(L[i].s, L[i + 1].s)
             /\ { L[i].s : i \in 1..Len(L) } = RegKeySet(registry)

C8_Witness ==
  /\ resp.route = "list"
  /\ resp.status = 200
  /\ Len(registry) = 2
  /\ StrLess(registry[2].key, registry[1].key)

\* what a reader is answered when it reads the registry reg
AnswerOn(reg, r) ==
  IF r.route = "list" THEN PipelinesListResponse(reg, apiKey, r.hdr)
  ELSE PipelinesCallResponse(reg, apiKey, r.hdr, r.name, r.payload)

C10_RebuiltFromDirectory ==
  ScanDone
    => /\ ~scanRaised
       /\ registry = ScanResult(fs.base, IF fs.isdir THEN fs.listing ELSE <<>>)
       /\ \A i \in 1..Len(registry) :
            \E j \in 1..Len(fs.listing) :
              registry[i].file = <<fs.base, fs.listing[j].fname>>
       /\ (fs.base = "" \/ ~fs.isdir
           \/ \A j \in 1..Len(fs.listing) : ~Eligible(fs.listing[j]))
          => registry = <<>>

C10_Witness ==
  /\ ScanDone
  /\ fs.isdir
  /\ Len(fs.listing) = 1
  /\ ~Eligible(fs.listing[1])
  /\ registry = <<>>

\* the unit of the scanned directory that an entry was built from
UnitOf(entry) ==
  fs.listing[CHOOSE j \in 1..Len(fs.listing) :
               entry.file = <<fs.base, fs.listing[j].fname>>]

HasUnit(entry) ==
  \E j \in 1..Len(fs.listing) : entry.file = <<fs.base, fs.listing[j].fname>>

\* C11: once the first scan has completed, every entry of the registry was
\* built from a unit whose pipe attribute is present and callable, and an
\* authorized dispatch of a present key is never answered 404.
C11_EntriesCallable ==
  started
    => /\ \A i \in 1..Len(registry) :
            HasUnit(registry[i]) /\ UnitOf(registry[i]).pipe = "callable"
       /\ Dispatched(resp) => resp.status # 404

C11_Witness ==
  /\ ScanDone
  /\ Len(fs.listing) = 2
  /\ fs.listing[1].pipe = "notcallable"
  /\ Len(registry) = 1
  /\ Dispatched(resp)
  /\ resp.status = 200

\* the value of an attribute that is present, as the claim reads "present"
Present(v) == v # VNone

\* C12 as claimed: the key of a registered unit is its id attribute whenever
\* that is present, else its name attribute when that is present, else the
\* stem of the file name.
C12_KeyFromPresentAttribute ==
  ScanDone
    => \A i \in 1..Len(registry) :
         LET u == UnitOf(registry[i])
         IN VStr(registry[i].key) =
              IF Present(u.id) THEN u.id
              ELSE IF Present(u.name) THEN u.name
              ELSE VStr(u.fname.stem)

\* a non-empty string or a non-zero number
NonEmpty(v) ==
  \/ v.t = "str" /\ v.s # ""
  \/ v.t = "int" /\ v.n # 0

\* C12 amended: the key is str() of the id attribute whenever that is
\* present and not empty or zero, else str() of the name attribute when that
\* is present and not empty or zero, else the stem of the file name.
C12_KeyFromTruthyAttribute ==
  ScanDone
    => \A i \in 1..Len(registry) :
         LET u == UnitOf(registry[i])
         IN registry[i].key =
              IF Present(u.id) /\ NonEmpty(u.id) THEN PyStr(u.id)
              ELSE IF Present(u.name) /\ NonEmpty(u.name) THEN PyStr(u.name)
              ELSE u.fname.stem

C12_Witness ==
  /\ ScanDone
  /\ Len(registry) = 2
  /\ UnitOf(registry[1]).id = VStr("")
  /\ registry[1].key = "Time_unix"
  /\ UnitOf(registry[2]).id = VNone
  /\ UnitOf(registry[2]).name = VNone
  /\ registry[2].key = "noid"

\* C13: once the startup scan has completed the requests leave the registry
\* as it is, whatever they are answered (200, 401, 404 or 500); and a
\* request is served only after the startup scan has completed and while no
\* scan is running.
C13_RequestsKeepRegistry ==
  /\ [](resp.route # "none" => started /\ scanPc = "idle")
  /\ [][(scanPc = "idle" /\ resp'.route # "none" /\ resp' # resp)
          => (started /\ registry' = registry)]_vars

C13_Witness ==
  /\ ScanDone
  /\ Len(registry) = 2
  /\ resp.route = "call"
  /\ resp.status = 500

(***************************************************************************)
(* A call of retry_jsonrpc, on its own.                                    *)
(***************************************************************************)
InitRetry ==
  /\ apiKey = "changeme"
  /\ fs = [base |-> "", isdir |-> FALSE, listing |-> <<>>]
  /\ registry = <<>>
  /\ scanPc = "idle"
  /\ scanList = <<>>
  /\ scanIdx = 1
  /\ started = FALSE
  /\ preScan = <<>>
  /\ scanRaised = FALSE
  /\ resp = NoResp
  /\ \E r \in 0..MaxRetries :
       rj = RetryState("call", r, 0, <<>>, NoValue, NoValue)

\* one pass of the try statement: await call_fn(), return its result or
\* run the except block
RetryAttempt ==
  /\ rj.pc = "call"
  /\ \E out \in CallOutcomes :
       rj' = IF out.kind = "ok"
             THEN [rj EXCEPT !.pc = "returned", !.hist = Append(@, out),
                             !.ret = [kind |-> "value", val |-> out.val]]
             ELSE IF RetryOnError(rj.attempt, rj.retries, out)
             THEN [rj EXCEPT !.pc = "sleep", !.hist = Append(@, out)]
             ELSE [rj EXCEPT !.pc = "raised", !.hist = Append(@, out),
                             !.exc = out]
  /\ UNCHANGED <<apiKey, fs, registry, scanPc, scanList, scanIdx, started,
                 preScan, scanRaised, resp>>

\* asyncio.sleep(sleep_s) returns and `continue` takes the next value of
\* range(retries + 1); when there is none the function ends, returning None
RetrySleep ==
  /\ rj.pc = "sleep"
  /\ rj' = IF rj.attempt + 1 < rj.retries + 1
           THEN [rj EXCEPT !.pc = "call", !.attempt = @ + 1]
           ELSE [rj EXCEPT !.pc = "returned", !.ret = [kind |-> "None"]]
  /\ UNCHANGED <<apiKey, fs, registry, scanPc, scanList, scanIdx, started,
                 preScan, scanRaised, resp>>

NextRetry == RetryAttempt \/ RetrySleep

\* The event loop resumes the coroutine whenever the awaited call or sleep
\* has finished.
SpecRetry == InitRetry /\ [][NextRetry]_vars /\ WF_vars(NextRetry)

RetryDone == rj.pc \in {"returned", "raised"}

\* C14: with retries = 1, retry_jsonrpc ends after at most two awaits of
\* call_fn; it returns the first successful result; a second await happens
\* only after a first one that raised a transient error; a non-transient
\* error of the first await and any error of the second leave the function
\* as they were raised.
C14_RetryOnce ==
  /\ [](rj.retries = DefaultRetries
        => LET n == Len(rj.hist)
           IN /\ n <= 2
              /\ n = 2 => rj.hist[1].kind = "error" /\ IsTransient(rj.hist[1])
              /\ rj.pc = "returned"
                   => /\ n >= 1
                      /\ rj.hist[n].kind = "ok"
                      /\ rj.ret = [kind |-> "value", val |-> rj.hist[n].val]
                      /\ \A i \in 1..(n - 1) : rj.hist[i].kind = "error"
              /\ rj.pc = "raised"
                   => /\ n >= 1
                      /\ rj.hist[n].kind = "error"
                      /\ rj.exc = rj.hist[n]
                      /\ n = 1 => ~IsTransient(rj.hist[1])
              /\ (n = 2 /\ rj.hist[2].kind = "error") => rj.pc = "raised"
              /\ (n = 1 /\ rj.hist[1].kind = "error"
                  /\ ~IsTransient(rj.hist[1])) => rj.pc = "raised")
  /\ <>RetryDone

C14_Witness ==
  /\ rj.retries = DefaultRetries
  /\ rj.pc = "raised"
  /\ Len(rj.hist) = 2
  /\ rj.hist[2] = Err({"JSONRPCMessage"}, FALSE, <<>>)
====
